---- MODULE Spec2Model ----
(***************************************************************************)
(* odbc2parquet: the sizing policy (src/query/batch_size_limit.rs), the    *)
(* command line validation (src/main.rs) and the insert pipeline           *)
(* (src/insert.rs).                                                        *)
(*                                                                         *)
(* The module holds one specification per unit of the program:             *)
(*   SpecBatch   BatchSizeLimit::new and BatchSizeLimit::batch_size_in_rows *)
(*   SpecFile    FileSizeLimit::new, output_is_splitted and                *)
(*               should_start_new_file                                     *)
(*   SpecCli     main up to the dispatch of the command                    *)
(*   SpecInsert  insert::insert                                            *)
(*   SpecQuery   the query pipeline's loop and its file splitting          *)
(*   SpecFetch   the query pipeline's sequential and double-buffered fetch *)
(* Each specification drives the variables of its own unit and leaves the  *)
(* variables of the other units at their idle value.                       *)
(***************************************************************************)
EXTENDS Integers, Sequences, FiniteSets, TLC

VARIABLES
    \* ---- BatchSizeLimit ----
    num_rows_limit,           \* Option<usize> handed to BatchSizeLimit::new
    memory_limit,             \* Option<ByteSize> handed to BatchSizeLimit::new
    batch_limit,              \* the BatchSizeLimit value, or Unbuilt
    total_mem_usage_per_row,  \* argument of the last batch_size_in_rows call
    batch_result,             \* Result<usize, Error> of that call, or NoCall
    \* ---- FileSizeLimit ----
    row_groups_per_file,      \* u32 handed to FileSizeLimit::new
    file_size_threshold,      \* Option<ByteSize> handed to FileSizeLimit::new
    file_limit,               \* the FileSizeLimit value, or Unbuilt
    num_batch,                \* arguments of the last should_start_new_file call
    current_file_size,
    start_new_file,           \* Returned(its boolean result), or NoCall
    \* ---- main ----
    command,                  \* the parsed Command
    query_opt,                \* the QueryOpt of Command::Query, or NoOpt
    main_pc,                  \* where main stands
    validation,               \* result of perform_extra_validation, or NoCall
    started,                  \* the command main has dispatched to, or NotStarted
    main_result,              \* what main returned, or NoCall
    \* ---- insert ----
    parquet_row_groups,       \* the input file: the row count of each row group
    num_columns,              \* schema_desc.num_columns()
    insert_pc,                \* where insert stands
    row_group_index,          \* the loop variable of line 54
    num_rows,                 \* row count of the row group being inserted
    column_index,             \* the loop variable of line 77
    batch_size,               \* capacity asked for the transfer buffer
    odbc_buffer,              \* the column inserter: the buffer and its statement
    pb,                       \* the ParquetBuffer
    prepares,                 \* statements odbc_conn.prepare has returned
    executed,                 \* the calls of odbc_buffer.execute() that succeeded
    insert_result,            \* what insert returned, or NoCall
    stages,                   \* the stages the current row group has entered
    \* ---- query pipeline, file splitting ----
    output_limit,             \* the FileSizeLimit of the run
    batches_left,             \* non-empty batches the cursor has yet to deliver
    query_pc,                 \* the state of the pipeline
    row_groups_in_file,       \* sizes of the row groups written to the current file
    current_file_bytes,       \* accumulated byte size of the current file
    closed_files,             \* the files closed so far, in order
    \* ---- query pipeline, fetching ----
    sequential_fetching,      \* QueryOpt::sequential_fetching
    num_batches,              \* batches the cursor holds
    fetched,                  \* batches fetched so far
    buffer_content,           \* per fetch buffer, the batch it holds (0: none)
    spare,                    \* buffers handed back to the producer, in order
    filled,                   \* buffers handed over to the consumer, in order
    producer_pc,              \* the state of the producer task
    producer_buf,             \* the buffer the producer owns (0: none)
    consumer_pc,              \* the state of the consumer task
    consumer_buf,             \* the buffer the consumer owns (0: none)
    written                   \* the batches written as row groups, in order

batchVars == <<num_rows_limit, memory_limit, batch_limit,
               total_mem_usage_per_row, batch_result>>
fileVars == <<row_groups_per_file, file_size_threshold, file_limit,
              num_batch, current_file_size, start_new_file>>
cliVars == <<command, query_opt, main_pc, validation, started, main_result>>
insertVars == <<parquet_row_groups, num_columns, insert_pc, row_group_index,
                num_rows, column_index, batch_size, odbc_buffer, pb, prepares,
                executed, insert_result, stages>>
queryVars == <<output_limit, batches_left, query_pc, row_groups_in_file,
               current_file_bytes, closed_files>>
fetchVars == <<sequential_fetching, num_batches, fetched, buffer_content,
               spare, filled, producer_pc, producer_buf, consumer_pc,
               consumer_buf, written>>
vars == <<batchVars, fileVars, cliVars, insertVars, queryVars, fetchVars>>
notBatch == <<fileVars, cliVars, insertVars, queryVars, fetchVars>>
notFile == <<batchVars, cliVars, insertVars, queryVars, fetchVars>>
notCli == <<batchVars, fileVars, insertVars, queryVars, fetchVars>>
notInsert == <<batchVars, fileVars, cliVars, queryVars, fetchVars>>
notQuery == <<batchVars, fileVars, cliVars, insertVars, fetchVars>>
notFetch == <<batchVars, fileVars, cliVars, insertVars, queryVars>>

(***************************************************************************)
(* Bounds of the model.                                                    *)
(***************************************************************************)
MaxRowsLimit == 4
MaxMemory == 9
MaxBytesPerRow == 4
MaxRowGroupsPerFile == 3
MaxThreshold == 4
MaxFileSize == 6
MaxRowGroups == 3
MaxRowGroupRows == 3
MaxColumns == 2
MaxBatches == 4
MaxRowGroupBytes == 2

(***************************************************************************)
(* Values shared by the units.                                             *)
(***************************************************************************)
None == [some |-> FALSE]
Some(x) == [some |-> TRUE, val |-> x]
Option(S) == {None} \cup {Some(x) : x \in S}

Ok(x) == [tag |-> "Ok", val |-> x]
Err(e) == [tag |-> "Err", error |-> e]

Unbuilt == [tag |-> "Unbuilt"]
NoCall == [tag |-> "NoCall"]
Returned(x) == [tag |-> "Returned", val |-> x]
Idle == [tag |-> "Idle"]

min(a, b) == IF a <= b THEN a ELSE b

(***************************************************************************)
(* BatchSizeLimit (src/query/batch_size_limit.rs).                         *)
(*                                                                         *)
(* Byte sizes and row counts are naturals.  The conversion                 *)
(* memory.as_u64().try_into().unwrap() of a byte size to usize is the      *)
(* identity on every value the model can hold (all are below 2^31), on the *)
(* 32 bit and on the 64 bit build alike.  The default memory limit is the  *)
(* one of the 32 bit build, 1 GiB; the 64 bit one, 2^31 bytes, is one more *)
(* than the largest integer TLC represents.                                *)
(***************************************************************************)
DEFAULT_BATCH_SIZE_BYTES == 1073741824
DEFAULT_BATCH_SIZE_ROWS == 65535

Rows(rows) == [tag |-> "Rows", rows |-> rows]
Bytes(memory) == [tag |-> "Bytes", memory |-> memory]
BothBatch(rows, memory) == [tag |-> "Both", rows |-> rows, memory |-> memory]

BatchSizeLimit_new(rows_limit, mem_limit) ==
    CASE rows_limit.some /\ ~mem_limit.some -> Rows(rows_limit.val)
      [] ~rows_limit.some /\ mem_limit.some -> Bytes(mem_limit.val)
      [] ~rows_limit.some /\ ~mem_limit.some ->
            BothBatch(DEFAULT_BATCH_SIZE_ROWS, DEFAULT_BATCH_SIZE_BYTES)
      [] rows_limit.some /\ mem_limit.some ->
            BothBatch(rows_limit.val, mem_limit.val)

\* to_num_rows without its check for zero rows.
to_num_rows_unchecked(num_bytes, mem_per_row) ==
    Ok(num_bytes \div mem_per_row)

\* to_num_rows rounding the quotient up instead of down.
to_num_rows_round_up(num_bytes, mem_per_row) ==
    LET rows == (num_bytes + mem_per_row - 1) \div mem_per_row
    IN  IF rows = 0
        THEN Err("InsufficientMemoryBudget")
        ELSE Ok(rows)

\* The closure to_num_rows of batch_size_in_rows: the rows that fit into
\* num_bytes, or the error that not even one row does.
to_num_rows(num_bytes, mem_per_row) ==
    LET rows == num_bytes \div mem_per_row
    IN  IF rows = 0
        THEN Err("InsufficientMemoryBudget")
        ELSE Ok(rows)

\* batch_size_in_rows with Both returning the memory bound alone.
batch_size_in_rows_ignores_rows(self, mem_per_row) ==
    CASE self.tag = "Rows" -> Ok(self.rows)
      [] self.tag = "Bytes" -> to_num_rows(self.memory, mem_per_row)
      [] self.tag = "Both" -> to_num_rows(self.memory, mem_per_row)

\* batch_size_in_rows with Rows taking the row limit for a number of bytes.
batch_size_in_rows_rows_as_bytes(self, mem_per_row) ==
    CASE self.tag = "Rows" -> to_num_rows(self.rows, mem_per_row)
      [] self.tag = "Bytes" -> to_num_rows(self.memory, mem_per_row)
      [] self.tag = "Both" ->
            LET limit_rows == to_num_rows(self.memory, mem_per_row)
            IN  IF limit_rows.tag = "Err"
                THEN limit_rows
                ELSE Ok(min(limit_rows.val, self.rows))

batch_size_in_rows(self, mem_per_row) ==
    CASE self.tag = "Rows" -> Ok(self.rows)
      [] self.tag = "Bytes" -> to_num_rows(self.memory, mem_per_row)
      [] self.tag = "Both" ->
            LET limit_rows == to_num_rows(self.memory, mem_per_row)
            IN  IF limit_rows.tag = "Err"
                THEN limit_rows
                ELSE Ok(min(limit_rows.val, self.rows))

InitBatch ==
    /\ num_rows_limit \in Option(0..MaxRowsLimit)
    /\ memory_limit \in Option(0..MaxMemory)
    /\ batch_limit = Unbuilt
    /\ total_mem_usage_per_row = 0
    /\ batch_result = NoCall

IdleBatch ==
    /\ num_rows_limit = Idle
    /\ memory_limit = Idle
    /\ batch_limit = Idle
    /\ total_mem_usage_per_row = Idle
    /\ batch_result = Idle

\* BatchSizeLimit::new(num_rows_limit, memory_limit)
NewBatchSizeLimit ==
    /\ batch_limit = Unbuilt
    /\ batch_limit' = BatchSizeLimit_new(num_rows_limit, memory_limit)
    /\ UNCHANGED <<num_rows_limit, memory_limit, total_mem_usage_per_row,
                   batch_result>>
    /\ UNCHANGED notBatch

\* batch_limit.batch_size_in_rows(b).  The per-row cost is the sum of the
\* sizes of one element of every column buffer, so it is at least one byte.
CallBatchSizeInRows ==
    /\ batch_limit # Unbuilt
    /\ \E b \in 1..MaxBytesPerRow :
          /\ total_mem_usage_per_row' = b
          /\ batch_result' = batch_size_in_rows(batch_limit, b)
    /\ UNCHANGED <<num_rows_limit, memory_limit, batch_limit>>
    /\ UNCHANGED notBatch

NextBatch == NewBatchSizeLimit \/ CallBatchSizeInRows

(***************************************************************************)
(* FileSizeLimit (src/query/batch_size_limit.rs).                          *)
(***************************************************************************)
FileNone == [tag |-> "None"]
RowGroups(row_groups) == [tag |-> "RowGroups", row_groups |-> row_groups]
Size(size) == [tag |-> "Size", size |-> size]
BothFile(row_groups, size) ==
    [tag |-> "Both", row_groups |-> row_groups, size |-> size]

FileSizeLimit_new(num_row_groups, threshold) ==
    CASE num_row_groups = 0 /\ ~threshold.some -> FileNone
      [] num_row_groups = 0 /\ threshold.some -> Size(threshold.val)
      [] num_row_groups # 0 /\ ~threshold.some -> RowGroups(num_row_groups)
      [] num_row_groups # 0 /\ threshold.some ->
            BothFile(num_row_groups, threshold.val)

output_is_splitted(self) == ~(self.tag = "None")

\* should_start_new_file without the test for a count of zero.
should_start_new_file_at_zero(self, batch, file_size) ==
    CASE self.tag = "None" -> FALSE
      [] self.tag = "RowGroups" -> batch % self.row_groups = 0
      [] self.tag = "Size" -> file_size >= self.size
      [] self.tag = "Both" ->
            \/ batch % self.row_groups = 0
            \/ file_size >= self.size

\* should_start_new_file with a strict comparison of the sizes.
should_start_new_file_strict(self, batch, file_size) ==
    CASE self.tag = "None" -> FALSE
      [] self.tag = "RowGroups" ->
            batch # 0 /\ batch % self.row_groups = 0
      [] self.tag = "Size" -> file_size > self.size
      [] self.tag = "Both" ->
            \/ (batch # 0 /\ batch % self.row_groups = 0)
            \/ file_size > self.size

\* should_start_new_file with Both asking for the two conditions at once.
should_start_new_file_and(self, batch, file_size) ==
    CASE self.tag = "None" -> FALSE
      [] self.tag = "RowGroups" ->
            batch # 0 /\ batch % self.row_groups = 0
      [] self.tag = "Size" -> file_size >= self.size
      [] self.tag = "Both" ->
            /\ (batch # 0 /\ batch % self.row_groups = 0)
            /\ file_size >= self.size

\* should_start_new_file with the comparison of the sizes turned around.
should_start_new_file_below(self, batch, file_size) ==
    CASE self.tag = "None" -> FALSE
      [] self.tag = "RowGroups" ->
            batch # 0 /\ batch % self.row_groups = 0
      [] self.tag = "Size" -> file_size <= self.size
      [] self.tag = "Both" ->
            \/ (batch # 0 /\ batch % self.row_groups = 0)
            \/ file_size <= self.size

should_start_new_file(self, batch, file_size) ==
    CASE self.tag = "None" -> FALSE
      [] self.tag = "RowGroups" ->
            batch # 0 /\ batch % self.row_groups = 0
      [] self.tag = "Size" -> file_size >= self.size
      [] self.tag = "Both" ->
            \/ (batch # 0 /\ batch % self.row_groups = 0)
            \/ file_size >= self.size

InitFile ==
    /\ row_groups_per_file \in 0..MaxRowGroupsPerFile
    /\ file_size_threshold \in Option(0..MaxThreshold)
    /\ file_limit = Unbuilt
    /\ num_batch = 0
    /\ current_file_size = 0
    /\ start_new_file = NoCall

IdleFile ==
    /\ row_groups_per_file = Idle
    /\ file_size_threshold = Idle
    /\ file_limit = Idle
    /\ num_batch = Idle
    /\ current_file_size = Idle
    /\ start_new_file = Idle

\* FileSizeLimit::new(row_groups_per_file, file_size_threshold)
NewFileSizeLimit ==
    /\ file_limit = Unbuilt
    /\ file_limit' = FileSizeLimit_new(row_groups_per_file, file_size_threshold)
    /\ UNCHANGED <<row_groups_per_file, file_size_threshold, num_batch,
                   current_file_size, start_new_file>>
    /\ UNCHANGED notFile

\* file_limit.should_start_new_file(n, s)
CallShouldStartNewFile ==
    /\ file_limit # Unbuilt
    /\ \E n \in 0..(2 * MaxRowGroupsPerFile + 1), s \in 0..MaxFileSize :
          /\ num_batch' = n
          /\ current_file_size' = s
          /\ start_new_file' = Returned(should_start_new_file(file_limit, n, s))
    /\ UNCHANGED <<row_groups_per_file, file_size_threshold, file_limit>>
    /\ UNCHANGED notFile

NextFile == NewFileSizeLimit \/ CallShouldStartNewFile

(***************************************************************************)
(* main and Cli::perform_extra_validation (src/main.rs).                   *)
(*                                                                         *)
(* The state after Cli::parse(): a command, and for Command::Query the     *)
(* fields of QueryOpt the validation reads.  output_is_file is             *)
(* query_opt.output.is_file(): false for the output "-", standard output.  *)
(***************************************************************************)
Commands == {"Query", "ListDrivers", "ListDataSources", "Insert", "Completions"}
NoOpt == [tag |-> "NoOpt"]
NotStarted == "NotStarted"
Unit == "()"

QueryOpts ==
    [output_is_file : BOOLEAN,
     file_size_threshold : Option(0..MaxThreshold),
     row_groups_per_file : 0..MaxRowGroupsPerFile]

\* perform_extra_validation without the check of row_groups_per_file.
perform_extra_validation_threshold_only(cmd, opt) ==
    IF cmd = "Query" /\ ~opt.output_is_file /\ opt.file_size_threshold.some
    THEN Err("file-size-threshold conflicts with specifying stdout ('-') as output.")
    ELSE Ok(Unit)

perform_extra_validation(cmd, opt) ==
    IF cmd = "Query"
    THEN IF ~opt.output_is_file
         THEN IF opt.file_size_threshold.some
              THEN Err("file-size-threshold conflicts with specifying stdout ('-') as output.")
              ELSE IF opt.row_groups_per_file # 0
                   THEN Err("row-groups-per-file conflicts with specifying stdout ('-') as output.")
                   ELSE Ok(Unit)
         ELSE Ok(Unit)
    ELSE Ok(Unit)

InitCli ==
    /\ command \in Commands
    /\ query_opt \in (IF command = "Query" THEN QueryOpts ELSE {NoOpt})
    /\ main_pc = "validate"
    /\ validation = NoCall
    /\ started = NotStarted
    /\ main_result = NoCall

IdleCli ==
    /\ command = Idle
    /\ query_opt = Idle
    /\ main_pc = Idle
    /\ validation = Idle
    /\ started = Idle
    /\ main_result = Idle

\* opt.perform_extra_validation()?  An error leaves main at once.
Validate ==
    /\ main_pc = "validate"
    /\ validation' = perform_extra_validation(command, query_opt)
    /\ IF validation'.tag = "Err"
       THEN main_pc' = "exit" /\ main_result' = validation'
       ELSE main_pc' = "environment" /\ UNCHANGED main_result
    /\ UNCHANGED <<command, query_opt, started>>
    /\ UNCHANGED notCli

\* The logger is set up and environment()? gives the ODBC environment, or
\* its error leaves main.
InitEnvironment ==
    /\ main_pc = "environment"
    /\ \E ok \in BOOLEAN :
          IF ok
          THEN main_pc' = "dispatch" /\ UNCHANGED main_result
          ELSE main_pc' = "exit" /\ main_result' = Err("environment")
    /\ UNCHANGED <<command, query_opt, validation, started>>
    /\ UNCHANGED notCli

\* match opt.command: the command's function is entered.
Dispatch ==
    /\ main_pc = "dispatch"
    /\ started' = command
    /\ main_pc' = "running"
    /\ UNCHANGED <<command, query_opt, validation, main_result>>
    /\ UNCHANGED notCli

\* The command's function returns, and main returns its error or Ok(()).
Return ==
    /\ main_pc = "running"
    /\ \E ok \in BOOLEAN :
          main_result' = IF ok THEN Ok(Unit) ELSE Err(command)
    /\ main_pc' = "exit"
    /\ UNCHANGED <<command, query_opt, validation, started>>
    /\ UNCHANGED notCli

NextCli == Validate \/ InitEnvironment \/ Dispatch \/ Return

(***************************************************************************)
(* insert (src/insert.rs).                                                 *)
(*                                                                         *)
(* The input file is the sequence of the row counts of its row groups      *)
(* (the reader gives a non-negative row count, line 60 to 64) and the      *)
(* number of its columns.  odbc_buffer is the column inserter: id tells    *)
(* the allocations apart (the n-th buffer into_column_inserter returned),  *)
(* capacity is the batch size it was allocated with, stmt the prepared     *)
(* statement it is bound to (the n-th statement prepare returned),         *)
(* num_rows the parameter set size, columns the number of columns filled   *)
(* for the current row group.  Every call that returns a Result may fail;  *)
(* the ? operator then returns the error from insert.  stages is the log   *)
(* of the loop body: the stages the current row group has entered, in the  *)
(* order of the statements that make them up (the read of lines 59 to 64,  *)
(* the growth of lines 66 to 74, one copy-in per column in lines 77 to 81, *)
(* the execute of line 83).                                                *)
(***************************************************************************)
RowGroupFiles ==
    UNION {[1..n -> 0..MaxRowGroupRows] : n \in 0..MaxRowGroups}

NoBuffer == [id |-> 0, capacity |-> 0, stmt |-> 0, num_rows |-> 0, columns |-> 0]

\* statement.into_column_inserter(capacity, descs): a new buffer bound to stmt.
into_column_inserter(stmt, capacity, id) ==
    [id |-> id, capacity |-> capacity, stmt |-> stmt, num_rows |-> 0,
     columns |-> 0]

\* ParquetBuffer::new(batch_size)
ParquetBuffer_new(size) == [batch_size |-> size, num_rows_fetched |-> 0]

\* The test of line 66 reallocating whenever the row count differs.
needs_larger_buffer_if_different(rows, size) == rows # size

\* The test of line 66 reallocating also for a row group that just fits.
needs_larger_buffer_if_equal(rows, size) == rows >= size

\* The test of line 66 letting a row group one row too large pass.
needs_larger_buffer_off_by_one(rows, size) == rows > size + 1

\* The test of line 66: the row group does not fit into the buffer.
needs_larger_buffer(rows, size) == rows > size

InitInsert ==
    /\ parquet_row_groups \in RowGroupFiles
    /\ num_columns \in 1..MaxColumns
    /\ insert_pc = "setup"
    /\ row_group_index = 0
    /\ num_rows = 0
    /\ column_index = 0
    /\ batch_size = 0
    /\ odbc_buffer = NoBuffer
    /\ pb = ParquetBuffer_new(0)
    /\ prepares = 0
    /\ executed = <<>>
    /\ insert_result = NoCall
    /\ stages = <<>>

IdleInsert ==
    /\ parquet_row_groups = Idle
    /\ num_columns = Idle
    /\ insert_pc = Idle
    /\ row_group_index = Idle
    /\ num_rows = Idle
    /\ column_index = Idle
    /\ batch_size = Idle
    /\ odbc_buffer = Idle
    /\ pb = Idle
    /\ prepares = Idle
    /\ executed = Idle
    /\ insert_result = Idle
    /\ stages = Idle

\* The error of a step is noted and the loop goes on.
Fail_and_continue(step) ==
    /\ insert_pc' = "loop"
    /\ insert_result' = Err(step)

\* insert returns the error of the step that failed.
Fail(step) ==
    /\ insert_pc' = "error"
    /\ insert_result' = Err(step)

SetupSteps ==
    {"open_connection", "File::open", "SerializedFileReader::new",
     "parquet_type_to_odbc_buffer_desc", "prepare"}

\* Lines 21 to 52: the connection, the reader, the buffer descriptions, the
\* prepared statement, the first buffer of batch size 1, the ParquetBuffer.
Setup ==
    /\ insert_pc = "setup"
    /\ \/ \E step \in SetupSteps :
             /\ Fail(step)
             /\ UNCHANGED <<batch_size, odbc_buffer, pb, prepares>>
       \/ /\ Fail("into_column_inserter")
          /\ prepares' = prepares + 1
          /\ batch_size' = 1
          /\ UNCHANGED <<odbc_buffer, pb>>
       \/ /\ prepares' = prepares + 1
          /\ batch_size' = 1
          /\ odbc_buffer' = into_column_inserter(prepares', batch_size', 1)
          /\ pb' = ParquetBuffer_new(batch_size')
          /\ insert_pc' = "loop"
          /\ UNCHANGED insert_result
    /\ UNCHANGED <<parquet_row_groups, num_columns, row_group_index, num_rows,
                   column_index, executed, stages>>
    /\ UNCHANGED notInsert

\* The row group is read and lines 66 to 74 are left out.
ReadRowGroup_without_growth ==
    /\ insert_pc = "loop"
    /\ row_group_index < Len(parquet_row_groups)
    /\ \/ /\ Fail("get_row_group")
          /\ UNCHANGED num_rows
       \/ /\ num_rows' = parquet_row_groups[row_group_index + 1]
          /\ insert_pc' = "set_num_rows"
          /\ UNCHANGED insert_result
    /\ stages' = <<"ReadRowGroup">>
    /\ UNCHANGED <<parquet_row_groups, num_columns, row_group_index,
                   column_index, batch_size, odbc_buffer, pb, prepares,
                   executed>>
    /\ UNCHANGED notInsert

\* Lines 54 to 64: the next row group and its row count.
ReadRowGroup ==
    /\ insert_pc = "loop"
    /\ row_group_index < Len(parquet_row_groups)
    /\ \/ /\ Fail("get_row_group")
          /\ UNCHANGED num_rows
       \/ /\ num_rows' = parquet_row_groups[row_group_index + 1]
          /\ insert_pc' = "grow"
          /\ UNCHANGED insert_result
    /\ stages' = <<"ReadRowGroup">>
    /\ UNCHANGED <<parquet_row_groups, num_columns, row_group_index,
                   column_index, batch_size, odbc_buffer, pb, prepares,
                   executed>>
    /\ UNCHANGED notInsert

\* Lines 66 to 74: a row group larger than the buffer gets a new statement
\* and a new buffer of its size; the old buffer is dropped.
MaybeGrowBuffer ==
    /\ insert_pc = "grow"
    /\ IF needs_larger_buffer(num_rows, batch_size)
       THEN /\ batch_size' = num_rows
            /\ \/ /\ Fail("prepare")
                  /\ UNCHANGED <<odbc_buffer, prepares>>
               \/ /\ Fail("into_column_inserter")
                  /\ prepares' = prepares + 1
                  /\ UNCHANGED odbc_buffer
               \/ /\ prepares' = prepares + 1
                  /\ odbc_buffer' =
                        into_column_inserter(prepares', batch_size',
                                             odbc_buffer.id + 1)
                  /\ insert_pc' = "set_num_rows"
                  /\ UNCHANGED insert_result
       ELSE /\ insert_pc' = "set_num_rows"
            /\ UNCHANGED <<batch_size, odbc_buffer, prepares, insert_result>>
    /\ stages' = Append(stages, "MaybeGrowBuffer")
    /\ UNCHANGED <<parquet_row_groups, num_columns, row_group_index, num_rows,
                   column_index, pb, executed>>
    /\ UNCHANGED notInsert

\* Line 75 left out: the buffer keeps the row count it had.
SetNumRows_only_parquet_buffer ==
    /\ insert_pc = "set_num_rows"
    /\ odbc_buffer' = [odbc_buffer EXCEPT !.columns = 0]
    /\ pb' = [pb EXCEPT !.num_rows_fetched = num_rows]
    /\ column_index' = 0
    /\ insert_pc' = "copy"
    /\ UNCHANGED <<parquet_row_groups, num_columns, row_group_index, num_rows,
                   batch_size, prepares, executed, insert_result, stages>>
    /\ UNCHANGED notInsert

\* Lines 75 and 76.  set_num_rows panics on a row count above the capacity.
SetNumRows ==
    /\ insert_pc = "set_num_rows"
    /\ IF num_rows > odbc_buffer.capacity
       THEN /\ insert_pc' = "panic"
            /\ UNCHANGED <<odbc_buffer, pb, column_index>>
       ELSE /\ odbc_buffer' =
                  [odbc_buffer EXCEPT !.num_rows = num_rows, !.columns = 0]
            /\ pb' = [pb EXCEPT !.num_rows_fetched = num_rows]
            /\ column_index' = 0
            /\ insert_pc' = "copy"
    /\ UNCHANGED <<parquet_row_groups, num_columns, row_group_index, num_rows,
                   batch_size, prepares, executed, insert_result, stages>>
    /\ UNCHANGED notInsert

\* Lines 77 to 81: one column of the row group is copied into the buffer.
CopyColumn ==
    /\ insert_pc = "copy"
    /\ column_index < num_columns
    /\ \/ \E step \in {"get_column_reader", "parquet_to_odbc_col"} :
             /\ Fail(step)
             /\ UNCHANGED <<odbc_buffer, column_index>>
       \/ /\ odbc_buffer' =
                [odbc_buffer EXCEPT !.columns = odbc_buffer.columns + 1]
          /\ column_index' = column_index + 1
          /\ UNCHANGED <<insert_pc, insert_result>>
    /\ stages' = Append(stages, "ConvertToBuffer")
    /\ UNCHANGED <<parquet_row_groups, num_columns, row_group_index, num_rows,
                   batch_size, pb, prepares, executed>>
    /\ UNCHANGED notInsert

\* Line 83: the statement is executed with the rows of the buffer.
Execute ==
    /\ insert_pc = "copy"
    /\ column_index = num_columns
    /\ \/ /\ Fail("execute")
          /\ UNCHANGED <<executed, row_group_index>>
       \/ /\ executed' =
                Append(executed,
                       [row_group |-> row_group_index,
                        rows |-> odbc_buffer.num_rows,
                        columns |-> odbc_buffer.columns,
                        buffer |-> odbc_buffer.id,
                        capacity |-> odbc_buffer.capacity,
                        stmt |-> odbc_buffer.stmt])
          /\ row_group_index' = row_group_index + 1
          /\ insert_pc' = "loop"
          /\ UNCHANGED insert_result
    /\ stages' = Append(stages, "ExecuteBatch")
    /\ UNCHANGED <<parquet_row_groups, num_columns, num_rows, column_index,
                   batch_size, odbc_buffer, pb, prepares>>
    /\ UNCHANGED notInsert

\* Line 86: every row group is inserted.
Finish ==
    /\ insert_pc = "loop"
    /\ row_group_index = Len(parquet_row_groups)
    /\ insert_pc' = "done"
    /\ insert_result' = Ok(Unit)
    /\ UNCHANGED <<parquet_row_groups, num_columns, row_group_index, num_rows,
                   column_index, batch_size, odbc_buffer, pb, prepares,
                   executed, stages>>
    /\ UNCHANGED notInsert

NextInsert ==
    \/ Setup
    \/ ReadRowGroup
    \/ MaybeGrowBuffer
    \/ SetNumRows
    \/ CopyColumn
    \/ Execute
    \/ Finish

(***************************************************************************)
(* The query pipeline and its file splitting (spec 4.1 and 4.4).           *)
(*                                                                         *)
(* The states are FetchBatch, ConvertToColumnar, MaybeNewFile and          *)
(* WriteRowGroup, then back to FetchBatch, or Done, or Error.  The         *)
(* pipeline owns the counters of the sizing policy: the row groups written *)
(* to the current file and its accumulated byte size.  MaybeNewFile asks   *)
(* FileSizeLimit::should_start_new_file with these counters, so the size   *)
(* it sees is the one reached after the last row group was written.  A     *)
(* file is its row groups, each taken by its byte size.                    *)
(***************************************************************************)
FileSizeLimits ==
    {FileSizeLimit_new(n, t) :
        n \in 0..MaxRowGroupsPerFile, t \in Option(0..MaxThreshold)}

InitQuery ==
    /\ output_limit \in FileSizeLimits
    /\ batches_left \in 0..MaxBatches
    /\ query_pc = "FetchBatch"
    /\ row_groups_in_file = <<>>
    /\ current_file_bytes = 0
    /\ closed_files = <<>>

IdleQuery ==
    /\ output_limit = Idle
    /\ batches_left = Idle
    /\ query_pc = Idle
    /\ row_groups_in_file = Idle
    /\ current_file_bytes = Idle
    /\ closed_files = Idle

\* FetchBatch: the driver fills the buffer; no rows end the run.
FetchBatch ==
    /\ query_pc = "FetchBatch"
    /\ \/ /\ query_pc' = "Error"
          /\ UNCHANGED batches_left
       \/ /\ batches_left = 0
          /\ query_pc' = "Done"
          /\ UNCHANGED batches_left
       \/ /\ batches_left > 0
          /\ batches_left' = batches_left - 1
          /\ query_pc' = "ConvertToColumnar"
    /\ UNCHANGED <<output_limit, row_groups_in_file, current_file_bytes,
                   closed_files>>
    /\ UNCHANGED notQuery

\* ConvertToColumnar: the copy-out of every column, or its error.
ConvertToColumnar ==
    /\ query_pc = "ConvertToColumnar"
    /\ \E ok \in BOOLEAN :
          query_pc' = IF ok THEN "MaybeNewFile" ELSE "Error"
    /\ UNCHANGED <<output_limit, batches_left, row_groups_in_file,
                   current_file_bytes, closed_files>>
    /\ UNCHANGED notQuery

\* MaybeNewFile: on the policy's word the current file is closed and the
\* next one, with counters at zero, is opened.
MaybeNewFile ==
    /\ query_pc = "MaybeNewFile"
    /\ IF should_start_new_file(output_limit, Len(row_groups_in_file),
                                current_file_bytes)
       THEN /\ closed_files' =
                  Append(closed_files,
                         [row_groups |-> row_groups_in_file,
                          bytes |-> current_file_bytes])
            /\ row_groups_in_file' = <<>>
            /\ current_file_bytes' = 0
       ELSE UNCHANGED <<closed_files, row_groups_in_file, current_file_bytes>>
    /\ query_pc' = "WriteRowGroup"
    /\ UNCHANGED <<output_limit, batches_left>>
    /\ UNCHANGED notQuery

\* WriteRowGroup: the row group is written as a whole and its bytes are
\* added to the size counter; a failure writes nothing.
WriteRowGroup ==
    /\ query_pc = "WriteRowGroup"
    /\ \/ /\ query_pc' = "Error"
          /\ UNCHANGED <<row_groups_in_file, current_file_bytes>>
       \/ \E bytes \in 1..MaxRowGroupBytes :
             /\ row_groups_in_file' = Append(row_groups_in_file, bytes)
             /\ current_file_bytes' = current_file_bytes + bytes
             /\ query_pc' = "FetchBatch"
    /\ UNCHANGED <<output_limit, batches_left, closed_files>>
    /\ UNCHANGED notQuery

NextQuery == FetchBatch \/ ConvertToColumnar \/ MaybeNewFile \/ WriteRowGroup

(***************************************************************************)
(* Fetching in the query pipeline (spec 4.4 FetchBatch and 5).             *)
(*                                                                         *)
(* With sequential_fetching one fetch buffer is allocated, otherwise two.  *)
(* A producer task fetches the batches of the cursor, each into a buffer   *)
(* it owns, and hands the buffer over; a consumer task converts and writes *)
(* the batch of the buffer it received and hands the buffer back.  Both    *)
(* handoffs keep the order of the buffers.  A batch is taken by its        *)
(* position in the cursor, so strictly sequential execution writes the     *)
(* batches 1, 2, ... in this order.                                        *)
(***************************************************************************)
FetchBuffers == IF sequential_fetching THEN {1} ELSE {1, 2}

InitFetch ==
    /\ sequential_fetching \in BOOLEAN
    /\ num_batches \in 0..MaxBatches
    /\ fetched = 0
    /\ buffer_content = [b \in {1, 2} |-> 0]
    /\ spare = IF sequential_fetching THEN <<1>> ELSE <<1, 2>>
    /\ filled = <<>>
    /\ producer_pc = "take"
    /\ producer_buf = 0
    /\ consumer_pc = "receive"
    /\ consumer_buf = 0
    /\ written = <<>>

IdleFetch ==
    /\ sequential_fetching = Idle
    /\ num_batches = Idle
    /\ fetched = Idle
    /\ buffer_content = Idle
    /\ spare = Idle
    /\ filled = Idle
    /\ producer_pc = Idle
    /\ producer_buf = Idle
    /\ consumer_pc = Idle
    /\ consumer_buf = Idle
    /\ written = Idle

\* The producer that fills any buffer, handed back or not.
ProducerTake_without_waiting ==
    /\ producer_pc = "take"
    /\ \E b \in FetchBuffers :
          /\ producer_buf' = b
          /\ spare' = SelectSeq(spare, LAMBDA x : x # b)
    /\ producer_pc' = "fetch"
    /\ UNCHANGED <<sequential_fetching, num_batches, fetched, buffer_content,
                   filled, consumer_pc, consumer_buf, written>>
    /\ UNCHANGED notFetch

\* The producer waits for a buffer the consumer does not hold.
ProducerTake ==
    /\ producer_pc = "take"
    /\ spare # <<>>
    /\ producer_buf' = Head(spare)
    /\ spare' = Tail(spare)
    /\ producer_pc' = "fetch"
    /\ UNCHANGED <<sequential_fetching, num_batches, fetched, buffer_content,
                   filled, consumer_pc, consumer_buf, written>>
    /\ UNCHANGED notFetch

\* The driver fills the producer's buffer with the next batch; no rows end
\* the producer.
ProducerFetch ==
    /\ producer_pc = "fetch"
    /\ IF fetched < num_batches
       THEN /\ fetched' = fetched + 1
            /\ buffer_content' =
                  [buffer_content EXCEPT ![producer_buf] = fetched + 1]
            /\ producer_pc' = "send"
       ELSE /\ producer_pc' = "done"
            /\ UNCHANGED <<fetched, buffer_content>>
    /\ UNCHANGED <<sequential_fetching, num_batches, spare, filled,
                   producer_buf, consumer_pc, consumer_buf, written>>
    /\ UNCHANGED notFetch

\* The producer hands the filled buffer over.
ProducerSend ==
    /\ producer_pc = "send"
    /\ filled' = Append(filled, producer_buf)
    /\ producer_buf' = 0
    /\ producer_pc' = "take"
    /\ UNCHANGED <<sequential_fetching, num_batches, fetched, buffer_content,
                   spare, consumer_pc, consumer_buf, written>>
    /\ UNCHANGED notFetch

\* The consumer takes the next filled buffer, or ends after the producer.
ConsumerReceive ==
    /\ consumer_pc = "receive"
    /\ \/ /\ filled # <<>>
          /\ consumer_buf' = Head(filled)
          /\ filled' = Tail(filled)
          /\ consumer_pc' = "write"
       \/ /\ filled = <<>>
          /\ producer_pc = "done"
          /\ consumer_pc' = "done"
          /\ UNCHANGED <<consumer_buf, filled>>
    /\ UNCHANGED <<sequential_fetching, num_batches, fetched, buffer_content,
                   spare, producer_pc, producer_buf, written>>
    /\ UNCHANGED notFetch

\* The consumer converts the batch of its buffer and writes the row group.
ConsumerWrite ==
    /\ consumer_pc = "write"
    /\ written' = Append(written, buffer_content[consumer_buf])
    /\ consumer_pc' = "return"
    /\ UNCHANGED <<sequential_fetching, num_batches, fetched, buffer_content,
                   spare, filled, producer_pc, producer_buf, consumer_buf>>
    /\ UNCHANGED notFetch

\* The consumer hands its buffer back.
ConsumerReturn ==
    /\ consumer_pc = "return"
    /\ spare' = Append(spare, consumer_buf)
    /\ consumer_buf' = 0
    /\ consumer_pc' = "receive"
    /\ UNCHANGED <<sequential_fetching, num_batches, fetched, buffer_content,
                   filled, producer_pc, producer_buf, written>>
    /\ UNCHANGED notFetch

NextFetch ==
    \/ ProducerTake
    \/ ProducerFetch
    \/ ProducerSend
    \/ ConsumerReceive
    \/ ConsumerWrite
    \/ ConsumerReturn

(***************************************************************************)
(* Properties of BatchSizeLimit, checked under SpecBatch.                  *)
(***************************************************************************)
BatchCalled == batch_result.tag \in {"Ok", "Err"}
OnlyMemory == ~num_rows_limit.some /\ memory_limit.some
OnlyRows == num_rows_limit.some /\ ~memory_limit.some
RowsAndMemory == num_rows_limit.some /\ memory_limit.some
InsufficientMemoryBudget ==
    batch_result.tag = "Err" /\ batch_result.error = "InsufficientMemoryBudget"

\* C1: with no row limit and a memory limit M, batch_size_in_rows(B) is the
\* integer quotient M / B when that is at least 1, and the
\* InsufficientMemoryBudget error when M < B.
C1_MemoryOnlyQuotientOrError ==
    (BatchCalled /\ OnlyMemory) =>
        LET M == memory_limit.val
            B == total_mem_usage_per_row
        IN  /\ (M \div B >= 1) => batch_result = Ok(M \div B)
            /\ (M < B) => InsufficientMemoryBudget

C1_Witness ==
    /\ BatchCalled /\ OnlyMemory
    /\ total_mem_usage_per_row >= 2
    /\ memory_limit.val % total_mem_usage_per_row # 0
    /\ batch_result.tag = "Ok" /\ batch_result.val >= 2

\* C2 as stated: with a row limit R and a memory limit M, batch_size_in_rows(B)
\* equals min(R, M / B) for all R, M and B.
C2_BothIsMinForAll ==
    (BatchCalled /\ RowsAndMemory) =>
        batch_result =
            Ok(min(num_rows_limit.val,
                   memory_limit.val \div total_mem_usage_per_row))

\* C2 amended: with a row limit R and a memory limit M, batch_size_in_rows(B)
\* equals min(R, M / B) when M / B >= 1, and is the InsufficientMemoryBudget
\* error when M < B, whatever R is.
C2_BothIsMinOrError ==
    (BatchCalled /\ RowsAndMemory) =>
        LET R == num_rows_limit.val
            M == memory_limit.val
            B == total_mem_usage_per_row
        IN  IF M \div B >= 1
            THEN batch_result = Ok(IF R <= M \div B THEN R ELSE M \div B)
            ELSE InsufficientMemoryBudget

C2_Witness ==
    /\ BatchCalled /\ RowsAndMemory
    /\ batch_result.tag = "Ok"
    /\ batch_result.val >= 2
    /\ batch_result.val < num_rows_limit.val

\* C3: with a row limit R and no memory limit, batch_size_in_rows returns
\* exactly R for every per-row cost, and never fails.
C3_RowsOnlyReturnsRows ==
    (BatchCalled /\ OnlyRows) => batch_result = Ok(num_rows_limit.val)

C3_Witness ==
    /\ BatchCalled /\ OnlyRows
    /\ total_mem_usage_per_row > num_rows_limit.val
    /\ num_rows_limit.val >= 2
    /\ batch_result.tag = "Ok"

\* C4: whenever a memory limit M is in effect and batch_size_in_rows(B)
\* succeeds with r rows, r * B <= M; and when the memory limit is the only
\* limit, r is the largest such row count: (r + 1) * B > M.
C4_BufferFitsMemory ==
    (batch_result.tag = "Ok" /\ batch_limit.tag \in {"Bytes", "Both"}) =>
        LET r == batch_result.val
            M == batch_limit.memory
            B == total_mem_usage_per_row
        IN  /\ r * B <= M
            /\ batch_limit.tag = "Bytes" => (r + 1) * B > M

C4_Witness ==
    /\ batch_result.tag = "Ok"
    /\ batch_limit.tag = "Bytes"
    /\ batch_result.val >= 2
    /\ batch_result.val * total_mem_usage_per_row < batch_limit.memory

(***************************************************************************)
(* Properties of FileSizeLimit, checked under SpecFile.                    *)
(***************************************************************************)
FileCalled == start_new_file.tag = "Returned"
PositiveMultiple(count, n) == \E k \in 1..count : count = k * n

\* C5: with only a row-group bound N >= 1, should_start_new_file(count, size)
\* is true exactly when count is a positive multiple of N, for every size.
C5_RowGroupBoundAtMultiples ==
    (FileCalled /\ row_groups_per_file >= 1 /\ ~file_size_threshold.some) =>
        (start_new_file.val <=> PositiveMultiple(num_batch, row_groups_per_file))

C5_Witness ==
    /\ FileCalled /\ ~file_size_threshold.some
    /\ row_groups_per_file >= 2
    /\ num_batch = 2 * row_groups_per_file
    /\ start_new_file.val

\* C6: with only a size threshold T, should_start_new_file(count, size) is
\* false for every size < T and true for every size >= T, whatever count is.
C6_SizeBoundAtThreshold ==
    (FileCalled /\ row_groups_per_file = 0 /\ file_size_threshold.some) =>
        /\ current_file_size < file_size_threshold.val => ~start_new_file.val
        /\ current_file_size >= file_size_threshold.val => start_new_file.val

C6_Witness ==
    /\ FileCalled /\ row_groups_per_file = 0 /\ file_size_threshold.some
    /\ file_size_threshold.val >= 1
    /\ current_file_size = file_size_threshold.val
    /\ num_batch = 1
    /\ start_new_file.val

\* C7: for FileSizeLimit::new(n, t), should_start_new_file is the OR of the
\* row-group decision (taken only when n # 0) and the size decision (taken
\* only when t is set); with n = 0 and no threshold it is false for every
\* input and output_is_splitted is false.
C7_DecisionIsOrOfBounds ==
    FileCalled =>
        LET n == row_groups_per_file
            t == file_size_threshold
            byRowGroups == n # 0 /\ PositiveMultiple(num_batch, n)
            bySize == t.some /\ ~(current_file_size < t.val)
        IN  /\ start_new_file.val <=> (byRowGroups \/ bySize)
            /\ (n = 0 /\ ~t.some) =>
                  (~start_new_file.val /\ ~output_is_splitted(file_limit))

C7_Witness ==
    /\ FileCalled
    /\ row_groups_per_file >= 2 /\ file_size_threshold.some
    /\ num_batch = row_groups_per_file
    /\ current_file_size < file_size_threshold.val
    /\ start_new_file.val

(***************************************************************************)
(* Properties of main, checked under SpecCli.                              *)
(***************************************************************************)
SplitsToStdout ==
    /\ command = "Query"
    /\ ~query_opt.output_is_file
    /\ (query_opt.file_size_threshold.some \/ query_opt.row_groups_per_file # 0)

\* C8: for the query command with standard output as the output, validation
\* fails, and no pipeline is started, whenever a file-size threshold is set
\* or row_groups_per_file is non-zero; validation succeeds when neither is
\* set, for a file output and for every other command.
C8_SplitToStdoutRejected ==
    /\ SplitsToStdout => started = NotStarted
    /\ main_pc # "validate" =>
          IF SplitsToStdout
          THEN /\ validation.tag = "Err"
               /\ main_pc = "exit"
               /\ main_result.tag = "Err"
          ELSE validation.tag = "Ok"

C8_Witness ==
    /\ command = "Query"
    /\ ~query_opt.output_is_file
    /\ ~query_opt.file_size_threshold.some
    /\ query_opt.row_groups_per_file = 2
    /\ validation.tag = "Err"
    /\ main_pc = "exit"

(***************************************************************************)
(* Properties of insert, checked under SpecInsert.                         *)
(***************************************************************************)
MaxOf(S) == CHOOSE x \in S : \A y \in S : y <= x

\* The first buffer exists: the setup went through.
HasBuffer == odbc_buffer.id >= 1

\* The number of row groups of the file whose row count has been through the
\* test of line 66 and the reallocation it may ask for.
GrowthChecked ==
    IF \/ insert_pc \in {"set_num_rows", "copy"}
       \/ /\ insert_pc = "error"
          /\ insert_result.error \in
                {"get_column_reader", "parquet_to_odbc_col", "execute"}
    THEN row_group_index + 1
    ELSE row_group_index

\* The largest row count among the first k row groups, and 1 at least.
LargestSeen(k) == MaxOf({1} \cup {parquet_row_groups[i] : i \in 1..k})

\* The row groups among the first k that are larger than all before them
\* and larger than the first buffer.
GrowthEvents(k) ==
    Cardinality({i \in 1..k : parquet_row_groups[i] > LargestSeen(i - 1)})

CapacityIsLargestSeen ==
    HasBuffer => odbc_buffer.capacity = LargestSeen(GrowthChecked)

CapacityNeverDecreases == odbc_buffer'.capacity >= odbc_buffer.capacity

\* C9: after any prefix of row groups the capacity of the transfer buffer is
\* the maximum of 1 and the largest row count seen so far, and no step of a
\* run makes the capacity smaller.
C9_CapacityIsMaxSeenAndMonotonic ==
    /\ []CapacityIsLargestSeen
    /\ [][CapacityNeverDecreases]_vars

C9_Witness ==
    /\ insert_pc = "done"
    /\ odbc_buffer.capacity >= 2
    /\ \E i \in 2..Len(parquet_row_groups) :
          /\ parquet_row_groups[i] < parquet_row_groups[i - 1]
          /\ parquet_row_groups[i] >= 1

\* The growth step of a row group larger than the buffer either ends the run
\* with the error of prepare or into_column_inserter, or replaces the buffer
\* by a new one of the row group's size bound to a newly prepared statement;
\* the growth step of a row group that fits, and every other step after the
\* setup, leaves the buffer allocation, its capacity, its statement and the
\* number of prepares as they are.
ReallocatesExactlyOnGrowth ==
    /\ insert_pc = "grow" =>
          IF num_rows > odbc_buffer.capacity
          THEN \/ /\ insert_pc' = "error"
                  /\ odbc_buffer' = odbc_buffer
               \/ /\ insert_pc' = "set_num_rows"
                  /\ odbc_buffer'.id = odbc_buffer.id + 1
                  /\ odbc_buffer'.capacity = num_rows
                  /\ prepares' = prepares + 1
                  /\ odbc_buffer'.stmt = prepares'
          ELSE /\ insert_pc' = "set_num_rows"
               /\ odbc_buffer' = odbc_buffer
               /\ prepares' = prepares
    /\ insert_pc \notin {"setup", "grow"} =>
          /\ odbc_buffer'.id = odbc_buffer.id
          /\ odbc_buffer'.capacity = odbc_buffer.capacity
          /\ odbc_buffer'.stmt = odbc_buffer.stmt
          /\ prepares' = prepares

\* The buffers allocated are the first and one per growth event; unless the
\* run has failed, so are the statements prepared, and the buffer is bound to
\* the last of them.
PreparesAreOnePlusGrowthEvents ==
    HasBuffer =>
        /\ odbc_buffer.id = 1 + GrowthEvents(GrowthChecked)
        /\ insert_pc # "error" =>
              /\ prepares = 1 + GrowthEvents(GrowthChecked)
              /\ odbc_buffer.stmt = prepares

\* C10: the buffer is reallocated exactly when a row group's row count
\* exceeds the capacity, each reallocation with a fresh prepare of the
\* statement bound to the new buffer; a row group that fits leaves buffer,
\* capacity and statement unchanged; the prepares of a run are 1 plus the
\* growth events.
C10_ReallocationAndPrepareOnGrowthOnly ==
    /\ [][ReallocatesExactlyOnGrowth]_vars
    /\ []PreparesAreOnePlusGrowthEvents

C10_Witness ==
    /\ insert_pc = "done"
    /\ prepares = 3
    /\ \E i \in 2..Len(executed) :
          /\ executed[i].buffer = executed[i - 1].buffer
          /\ executed[i].rows >= 1

\* C11: the occupied row count set on the transfer buffer never exceeds its
\* capacity: at set_num_rows, at every column copy-in and at every execute
\* the row count of the row group is at most the capacity of the buffer
\* that is bound at that moment, and set_num_rows never panics.
C11_RowsWithinCapacity ==
    /\ insert_pc # "panic"
    /\ HasBuffer => odbc_buffer.num_rows <= odbc_buffer.capacity
    /\ insert_pc \in {"set_num_rows", "copy"} =>
          num_rows <= odbc_buffer.capacity
    /\ insert_pc = "copy" => odbc_buffer.num_rows = num_rows
    /\ \A i \in 1..Len(executed) : executed[i].rows <= executed[i].capacity

C11_Witness ==
    /\ insert_pc = "loop"
    /\ Len(executed) >= 2
    /\ executed[1].rows = 1 /\ executed[1].capacity = 1
    /\ executed[2].rows >= 2 /\ executed[2].rows = executed[2].capacity

ExecutedInFileOrder ==
    \A i \in 1..Len(executed) :
        /\ executed[i].row_group = i - 1
        /\ executed[i].rows = parquet_row_groups[i]
        /\ executed[i].columns = num_columns

\* C12: a run of insert that succeeds has executed the statement exactly
\* once per row group of the file, in file order, each execution with all
\* rows (and all columns) of that one row group; a file without row groups
\* leads to no execution.
C12_OneExecutePerRowGroupInOrder ==
    /\ ExecutedInFileOrder
    /\ Len(executed) <= Len(parquet_row_groups)
    /\ insert_result.tag = "Ok" =>
          /\ insert_pc = "done"
          /\ Len(executed) = Len(parquet_row_groups)

C12_Witness ==
    /\ insert_result.tag = "Ok"
    /\ Len(executed) >= 3
    /\ executed[1].rows > executed[2].rows
    /\ executed[2].rows >= 1

\* No step leaves a state in which insert has returned an error, and the
\* step that fails executes nothing and does not move to another row group.
NoStepAfterFailure ==
    /\ insert_result.tag # "Err"
    /\ insert_result'.tag = "Err" =>
          /\ insert_pc' = "error"
          /\ executed' = executed
          /\ row_group_index' = row_group_index

\* After a failure exactly the row groups before the failing one are executed.
FailureKeepsExecuted ==
    (insert_pc = "error" \/ insert_result.tag = "Err") =>
        /\ insert_pc = "error" /\ insert_result.tag = "Err"
        /\ Len(executed) = row_group_index
        /\ ExecutedInFileOrder

\* C15: any failure of insert is terminal: the error is returned at once,
\* the failing step is not retried, no later row group is read or executed,
\* and the row groups executed before the failure stay executed.
C15_FailureIsTerminal ==
    /\ [][NoStepAfterFailure]_vars
    /\ []FailureKeepsExecuted

C15_Witness ==
    /\ insert_pc = "error"
    /\ insert_result.error = "execute"
    /\ Len(executed) >= 1
    /\ row_group_index + 1 < Len(parquet_row_groups)

IsPrefix(s, t) == Len(s) <= Len(t) /\ \A i \in 1..Len(s) : s[i] = t[i]
Copies(n) == [i \in 1..n |-> "ConvertToBuffer"]

\* Read, then the copy-in of every column, then the growth check, then execute.
StagesConvertBeforeGrow ==
    <<"ReadRowGroup">> \o Copies(num_columns)
        \o <<"MaybeGrowBuffer", "ExecuteBatch">>

\* Read, then the growth check, then the copy-in of every column, then execute.
StagesGrowBeforeConvert ==
    <<"ReadRowGroup", "MaybeGrowBuffer">> \o Copies(num_columns)
        \o <<"ExecuteBatch">>

\* A row group has been executed and the next one is not yet read.
RowGroupExecuted == insert_pc \in {"loop", "done"} /\ Len(executed) >= 1

\* C16 as stated: every row group passes through ReadRowGroup,
\* ConvertToBuffer, MaybeGrowBuffer, ExecuteBatch in this order: its column
\* copy-in happens before its buffer-growth check, and execute comes last.
C16_ConvertThenGrowThenExecute ==
    /\ IsPrefix(stages, StagesConvertBeforeGrow)
    /\ RowGroupExecuted => stages = StagesConvertBeforeGrow

\* C16 amended: every row group passes through ReadRowGroup, MaybeGrowBuffer,
\* ConvertToBuffer, ExecuteBatch in this order: its buffer-growth check
\* happens before the copy-in of its first column, and execute comes last.
C16_GrowThenConvertThenExecute ==
    /\ IsPrefix(stages, StagesGrowBeforeConvert)
    /\ RowGroupExecuted => stages = StagesGrowBeforeConvert

C16_Witness ==
    /\ insert_pc = "loop"
    /\ Len(executed) = 2
    /\ num_columns = 2
    /\ executed[2].rows > executed[1].rows
    /\ stages = <<"ReadRowGroup", "MaybeGrowBuffer", "ConvertToBuffer",
                  "ConvertToBuffer", "ExecuteBatch">>

(***************************************************************************)
(* Properties of the query pipeline, checked under SpecQuery.              *)
(***************************************************************************)
LastRowGroupBytes(f) ==
    IF Len(f.row_groups) = 0 THEN 0 ELSE f.row_groups[Len(f.row_groups)]

\* A closed file has reached the threshold and is above it by no more than
\* its last row group.
ClosedAtThreshold(f, threshold) ==
    /\ f.bytes >= threshold
    /\ f.bytes - threshold <= LastRowGroupBytes(f)

SequentialRowGroups == [i \in 1..num_batches |-> i]

WrittenInSequentialOrder ==
    /\ IsPrefix(written, SequentialRowGroups)
    /\ consumer_pc = "done" => written = SequentialRowGroups

\* The producer owns its buffer from taking it to handing it over, the
\* consumer from receiving it to handing it back.
NoBufferFilledWhileRead ==
    producer_buf # 0 => producer_buf # consumer_buf

\* C14: with two fetch buffers, as with one, the row groups written are the
\* ones strictly sequential execution writes, in the same order, under
\* every interleaving of producer and consumer, and the producer never
\* fills the buffer the consumer is reading.
C14_DoubleBufferedKeepsOrder ==
    /\ WrittenInSequentialOrder
    /\ NoBufferFilledWhileRead

\* The producer has fetched batch 3 into one buffer while the consumer is
\* writing batch 2 from the other.
C14_Witness ==
    /\ ~sequential_fetching
    /\ written = <<1>>
    /\ consumer_pc = "write"
    /\ consumer_buf # 0
    /\ buffer_content[consumer_buf] = 2
    /\ producer_pc = "send"
    /\ producer_buf # 0
    /\ producer_buf # consumer_buf
    /\ buffer_content[producer_buf] = 3

(***************************************************************************)
(* The specifications.                                                     *)
(***************************************************************************)
BatchInit == InitBatch /\ IdleFile /\ IdleCli /\ IdleInsert /\ IdleQuery /\ IdleFetch
SpecBatch == BatchInit /\ [][NextBatch]_vars

FileInit == InitFile /\ IdleBatch /\ IdleCli /\ IdleInsert /\ IdleQuery /\ IdleFetch
SpecFile == FileInit /\ [][NextFile]_vars

CliInit == InitCli /\ IdleBatch /\ IdleFile /\ IdleInsert /\ IdleQuery /\ IdleFetch
SpecCli == CliInit /\ [][NextCli]_vars

InsertInit == InitInsert /\ IdleBatch /\ IdleFile /\ IdleCli /\ IdleQuery /\ IdleFetch
SpecInsert == InsertInit /\ [][NextInsert]_vars

QueryInit == InitQuery /\ IdleBatch /\ IdleFile /\ IdleCli /\ IdleInsert /\ IdleFetch
SpecQuery == QueryInit /\ [][NextQuery]_vars

FetchInit ==
    InitFetch /\ IdleBatch /\ IdleFile /\ IdleCli /\ IdleInsert /\ IdleQuery
SpecFetch == FetchInit /\ [][NextFetch]_vars

====
